---- MODULE Spec2Model ----
(***************************************************************************)
(* One piped SSH session of sshpiper: SSHPiper.Serve, the auth pipe        *)
(* (pipedConn.pipeAuth), the auth message rewriter (processAuthMsg and its *)
(* helpers validAndAck, checkPublicKey, signAgain, parsePublicKeyMsg) and  *)
(* the two peers the session talks to: the downstream client, which may    *)
(* send any packet, and the upstream SSH server, which answers the         *)
(* requests written to it.                                                 *)
(***************************************************************************)
EXTENDS Naturals, Sequences, FiniteSets

VARIABLES
    pc,          \* position of the session's goroutine inside Serve / pipeAuth
    err,         \* TRUE once Serve has returned an error
    cfgChallenge,\* piper.AdditionalChallenge != nil
    chalResult,  \* what AdditionalChallenge returned: "-", "ok", "fail", "err"
    findCalls,   \* number of FindUpstream invocations
    d_user,      \* d.user (downstream.User())
    firstReq,    \* Serve's userAuthReq, the seed of pipeAuth (until used)
    curMsg,      \* pipeAuth's userAuthMsg (NilMsg for nil)
    packet,      \* pipeAuth's packet: the last packet it read from the upstream
    hook,        \* this iteration's processAuthMsg call: request, keys, outcome
    upIn,        \* packets written to the upstream, not yet taken by it
    awaiting,    \* requests written upstream whose reply was not yet read
    upOut,       \* packets the upstream has sent and the piper has not read
    upAuthed,    \* the upstream has sent USERAUTH_SUCCESS
    banners,     \* number of USERAUTH_BANNER packets the upstream has sent
    downOut,     \* packets written to the downstream transport, in order
    nReq,        \* number of user-auth requests read from the downstream
    dClosed,     \* number of Close calls on the downstream socket
    uClosed,     \* number of Close calls on the upstream socket
    upErrs,      \* the upstream transport's sticky read / write failure
    chal,        \* the coercion loop: iterations begun, its own userAuthReq
    uOpened,     \* FindUpstream has returned an open upstream socket
    fwd,         \* loop(): the two copier goroutines and the result channel
    mp           \* one call of mapPublicKeyFromUserfile: its files and result

vars == << pc, err, cfgChallenge, chalResult, findCalls, d_user, firstReq,
           curMsg, packet, hook, upIn, awaiting, upOut, upAuthed, banners,
           downOut, nReq, dClosed, uClosed, upErrs, chal, uOpened, fwd, mp >>

\* ------------------------------------------------------------------ bounds

\* user-auth requests one session reads from the downstream
MaxReq == 2
\* USERAUTH_BANNER packets the upstream sends during one session
MaxBanner == 1
\* iterations of the coercion loop in one session
MaxChal == 2

\* ------------------------------------------------------------- wire values

serviceSSH == "ssh-connection"
serviceUserAuth == "ssh-userauth"

Users == {"alice", "bob"}

\* the session identifiers of the two transports (transport.getSessionID())
DownSessionID == "sid-downstream"
UpSessionID == "sid-upstream"

\* public keys: the client's keys and the key of the mapped backend signer
DownKeys == {"Kd", "Kx"}
UpKey == "Ku"
Keys == DownKeys \cup {UpKey}

\* PublicKey.Type()
KeyType(k) == IF k = UpKey THEN "ssh-ed25519" ELSE "ssh-rsa"

\* PublicKey.Marshal(): the wire blob, which names its algorithm
KeyMarshal(k) == [algo |-> KeyType(k), data |-> k]

BadKeyBlob == [algo |-> "ssh-rsa", data |-> "junk"]

\* ParsePublicKey: the key of a well-formed blob, "error" otherwise
ParsePublicKey(blob) ==
    IF blob.data \in Keys /\ blob.algo = KeyType(blob.data)
    THEN blob.data ELSE "error"

\* isAcceptableAlgo: the SSH library's accepted set
AcceptableAlgos == {"ssh-rsa", "ssh-ed25519"}
WeakAlgo == "ssh-weak"
isAcceptableAlgo(algo) == algo \in AcceptableAlgos

NoData == [Session |-> "-", User |-> "-", Service |-> "-", Method |-> "-",
           Algo |-> "-", PubKey |-> KeyMarshal("-")]

\* buildDataSignedForAuth(sessionId, req, algo, pubKey)
buildDataSignedForAuth(session, req, algo, pubKey) ==
    [Session |-> session, User |-> req.User, Service |-> req.Service,
     Method |-> req.Method, Algo |-> algo, PubKey |-> pubKey]

\* a signature: its format name, and (abstracting the cryptography) the key
\* that made it and the data it was made over
NoSig == [Format |-> "-", by |-> "-", data |-> NoData, ok |-> TRUE]

\* Signer.Sign(rand, data) of the signer holding key k
Sign(k, data) == [Format |-> KeyType(k), by |-> k, data |-> data, ok |-> TRUE]

\* PublicKey.Verify(data, sig): TRUE iff sig was made by this key over data
Verify(k, data, sig) == sig.by = k /\ sig.data = data

\* the payload of a publickey request; len0 is the zero-length payload, and
\* sig.ok = FALSE a signature field that does not parse (or trailing bytes)
NoPayload == [len0 |-> TRUE, HasSig |-> FALSE, Algoname |-> "-",
              PubKey |-> KeyMarshal("-"), Sig |-> NoSig]

PkPayload(hasSig, algo, blob, sig) ==
    [len0 |-> FALSE, HasSig |-> hasSig, Algoname |-> algo, PubKey |-> blob,
     Sig |-> sig]

\* userAuthRequestMsg
AuthReq(user, service, method, payload) ==
    [type |-> "USERAUTH_REQUEST", User |-> user, Service |-> service,
     Method |-> method, Payload |-> payload]

NilMsg == [type |-> "nil", User |-> "-", Service |-> "-", Method |-> "-",
           Payload |-> NoPayload]

\* the packets of the reply direction
Pkt(type, algo, key) == [type |-> type, Algo |-> algo, PubKey |-> key]
NoPacket == Pkt("nil", "-", KeyMarshal("-"))
FailurePkt == Pkt("USERAUTH_FAILURE", "-", KeyMarshal("-"))
SuccessPkt == Pkt("USERAUTH_SUCCESS", "-", KeyMarshal("-"))
BannerPkt == Pkt("USERAUTH_BANNER", "-", KeyMarshal("-"))
ServiceAcceptPkt == Pkt("SERVICE_ACCEPT", "-", KeyMarshal("-"))
DisconnectPkt == Pkt("DISCONNECT", "-", KeyMarshal("-"))
\* userAuthFailureMsg{Methods: []string{"keyboard-interactive"}}
ChallengeFailurePkt == Pkt("USERAUTH_FAILURE", "keyboard-interactive", KeyMarshal("-"))
\* userAuthPubKeyOkMsg{Algo, PubKey}
PubKeyOkPkt(algo, blob) == Pkt("USERAUTH_PK_OK", algo, blob)

ServiceRequest == [type |-> "SERVICE_REQUEST", User |-> "-",
                   Service |-> serviceUserAuth, Method |-> "-",
                   Payload |-> NoPayload]

\* ------------------------------------------------- the downstream's packets

\* every signature a client can put into a request for key k: a good one
\* (its own key, the downstream session id, the request's fields), one over
\* the other transport's session id, one made with another key, one whose
\* format is not accepted, and a signature field that does not parse
ClientSigs(user, k) ==
    LET req == AuthReq(user, serviceSSH, "publickey", NoPayload)
        good == buildDataSignedForAuth(DownSessionID, req, KeyType(k), KeyMarshal(k))
        other == buildDataSignedForAuth(UpSessionID, req, KeyType(k), KeyMarshal(k))
    IN  { Sign(k, good),
          Sign(k, other),
          Sign("Kx", good),
          [Sign(k, good) EXCEPT !.Format = WeakAlgo],
          [Sign(k, good) EXCEPT !.ok = FALSE] }

PkPayloads(user) ==
    {NoPayload}
    \cup { PkPayload(FALSE, a, KeyMarshal("Kd"), NoSig) : a \in {"ssh-rsa", WeakAlgo} }
    \cup { PkPayload(FALSE, "ssh-rsa", BadKeyBlob, NoSig) }
    \cup { PkPayload(TRUE, "ssh-rsa", KeyMarshal("Kd"), s) : s \in ClientSigs(user, "Kd") }
    \cup { PkPayload(TRUE, WeakAlgo, KeyMarshal("Kd"), Sign("Kd",
              buildDataSignedForAuth(DownSessionID,
                  AuthReq(user, serviceSSH, "publickey", NoPayload),
                  "ssh-rsa", KeyMarshal("Kd")))) }

\* what a read of the downstream transport can deliver: user-auth requests
\* of every method, a request for another service, a packet that is no
\* user-auth request
DownRequests ==
    { AuthReq(u, serviceSSH, m, NoPayload) :
          u \in Users, m \in {"none", "password", "keyboard-interactive"} }
    \cup UNION { { AuthReq(u, serviceSSH, "publickey", p) : p \in PkPayloads(u) } : u \in Users }

DownPackets ==
    DownRequests
    \cup { AuthReq("alice", "ssh-other", "none", NoPayload) }
    \cup { [NilMsg EXCEPT !.type = "IGNORE"] }

\* downstream.nextAuthMsg() on the packet p that readPacket delivered:
\* the request, or NilMsg with an error
nextAuthMsg(p) ==
    IF p.type # "USERAUTH_REQUEST" THEN [msg |-> NilMsg, err |-> TRUE]
    ELSE IF p.Service # serviceSSH THEN [msg |-> NilMsg, err |-> TRUE]
    ELSE [msg |-> p, err |-> FALSE]

\* ------------------------------------------------------------ the rewriter

\* noneAuthMsg taking the session's user in place of the request's
noneAuthMsgSessionUser(user) == AuthReq(d_user, serviceSSH, "none", NoPayload)

noneAuthMsg(user) == AuthReq(user, serviceSSH, "none", NoPayload)

\* parsePublicKeyMsg(userAuthReq) -> (pubKey, isQuery, sig, err)
parsePublicKeyMsg(userAuthReq) ==
    LET payload == userAuthReq.Payload
        isQuery == ~payload.HasSig
        bad == [pubKey |-> "-", isQuery |-> FALSE, sig |-> NoSig, err |-> TRUE]
    IN  IF userAuthReq.Method # "publickey" THEN bad
        ELSE IF payload.len0 THEN bad
        ELSE IF ~isAcceptableAlgo(payload.Algoname) THEN bad
        ELSE IF ParsePublicKey(payload.PubKey) = "error" THEN bad
        ELSE IF ~isQuery /\ ~payload.Sig.ok THEN bad
        ELSE [pubKey |-> ParsePublicKey(payload.PubKey), isQuery |-> isQuery,
              sig |-> IF isQuery THEN NoSig ELSE payload.Sig, err |-> FALSE]

\* checkSignedData binding the verification to the upstream's session id
checkSignedDataUp(msg, pubkey) ==
    buildDataSignedForAuth(UpSessionID, msg, KeyType(pubkey), KeyMarshal(pubkey))

\* the signed data checkPublicKey verifies the downstream's signature over
checkSignedData(msg, pubkey) ==
    buildDataSignedForAuth(DownSessionID, msg, KeyType(pubkey), KeyMarshal(pubkey))

\* checkPublicKey without the check of the signature's format
checkPublicKeyAnyFormat(msg, pubkey, sig) ==
    Verify(pubkey, checkSignedData(msg, pubkey), sig)

\* pipedConn.checkPublicKey(msg, pubkey, sig) -> ok (its error is always nil)
checkPublicKey(msg, pubkey, sig) ==
    IF ~isAcceptableAlgo(sig.Format) THEN FALSE
    ELSE Verify(pubkey, checkSignedData(msg, pubkey), sig)

\* the session id signAgain binds the new signature to
signSession == UpSessionID

\* a signAgain that puts the downstream's signature into the new request
signAgainKeepSig(msg, signer, downKey) ==
    AuthReq(d_user, serviceSSH, "publickey",
            PkPayload(TRUE, KeyType(signer), KeyMarshal(signer),
                      msg.Payload.Sig))

\* pipedConn.signAgain(msg, signer, downKey): the request written upstream
\* in place of msg; signer is the mapped signer's public key
signAgain(msg, signer, downKey) ==
    LET user == d_user
        upKey == signer
        upKeyData == KeyMarshal(upKey)
        sign == Sign(signer, buildDataSignedForAuth(signSession,
                    AuthReq(user, serviceSSH, "publickey", NoPayload),
                    KeyType(upKey), upKeyData))
    IN  AuthReq(user, serviceSSH, "publickey",
                PkPayload(TRUE, KeyType(upKey), upKeyData, sign))

\* what the MapPublicKey callback can return: a signer (whose public key is
\* UpKey), no signer, or an error
MapResults == {"signer", "nil", "err"}

\* the part of the processAuthMsg hook that does no I/O, for the request
\* msg, MapPublicKey's answer mapped and the outcome of signer.Sign.
\* outcome "query" leaves the message to validAndAck.
processAuthMsg(msg, mapped, signFails) ==
    LET user == msg.User
        parsed == parsePublicKeyMsg(msg)
        downKey == parsed.pubKey
        out(m, e, o) == [msg |-> m, err |-> e, outcome |-> o,
                         downKey |-> IF o \in {"pass", "parse_err"} THEN "-" ELSE downKey]
    IN  IF msg.Method # "publickey" THEN out(msg, FALSE, "pass")
        ELSE IF parsed.err THEN out(NilMsg, TRUE, "parse_err")
        ELSE IF mapped # "signer" THEN out(noneAuthMsg(user), FALSE, "nomap")
        ELSE IF parsed.isQuery THEN out(msg, FALSE, "query")
        ELSE IF ~checkPublicKey(msg, downKey, parsed.sig)
             THEN out(noneAuthMsg(user), FALSE, "badsig")
        ELSE IF signFails THEN out(NilMsg, TRUE, "sign_err")
        ELSE out(signAgain(msg, UpKey, downKey), FALSE, "resign")

NoHook == [req |-> NilMsg, mapped |-> "-", downKey |-> "-", outcome |-> "-",
           verified |-> NoData]

\* ------------------------------------------------------------------- Serve

\* the coercion loop has not run
NoChal == [n |-> 0, req |-> NilMsg]
\* loop() has not started its copiers
NoFwd == [parent |-> "-", cp |-> << "-", "-" >>, nread |-> << 0, 0 >>,
          out |-> << << >>, << >> >>, sendq |-> << >>, errs |-> << >>,
          ret |-> 0]
\* no call of mapPublicKeyFromUserfile is under study
NoMap == [st |-> "-", authFile |-> "-", keyFile |-> "-", key |-> "-",
          result |-> "-", core |-> "-"]

Init ==
    /\ pc = "newDownstream"
    /\ err = FALSE
    /\ cfgChallenge \in BOOLEAN
    /\ chalResult = "-"
    /\ findCalls = 0
    /\ d_user = "-"
    /\ firstReq = NilMsg
    /\ curMsg = NilMsg
    /\ packet = NoPacket
    /\ hook = NoHook
    /\ upIn = << >>
    /\ awaiting = 0
    /\ upOut = << >>
    /\ upAuthed = FALSE
    /\ banners = 0
    /\ downOut = << >>
    /\ nReq = 0
    /\ dClosed = 0
    /\ uClosed = 0
    /\ upErrs = [read |-> FALSE, write |-> FALSE]
    /\ chal = NoChal
    /\ uOpened = FALSE
    /\ fwd = NoFwd
    /\ mp = NoMap

\* Serve returns e; its deferred d.Close() / u.Close() run if registered
Return(e, dDeferred, uDeferred) ==
    /\ pc' = "done"
    /\ err' = e
    /\ dClosed' = dClosed + (IF dDeferred THEN 1 ELSE 0)
    /\ uClosed' = uClosed + (IF uDeferred THEN 1 ELSE 0)

\* newDownstream: the server handshake; on failure the socket is closed
NewDownstream ==
    /\ pc = "newDownstream"
    /\ \E ok \in BOOLEAN :
         IF ok THEN /\ pc' = "firstAuth"
                    /\ UNCHANGED << err, dClosed, uClosed >>
         ELSE /\ pc' = "done"
              /\ err' = TRUE
              /\ dClosed' = dClosed + 1
              /\ UNCHANGED uClosed
    /\ UNCHANGED << cfgChallenge, chal, uOpened, fwd, mp, upErrs, chalResult,
                    findCalls, d_user, firstReq,
                    curMsg, packet, hook, upIn, awaiting, upOut, upAuthed,
                    banners, downOut, nReq >>

\* userAuthReq, err := d.nextAuthMsg(); d.user = userAuthReq.User
FirstAuth ==
    /\ pc = "firstAuth"
    /\ nReq < MaxReq
    /\ \E fails \in BOOLEAN, p \in DownPackets :
         LET r == nextAuthMsg(p) IN
         IF fails \/ r.err
         THEN /\ Return(TRUE, TRUE, FALSE)
              /\ UNCHANGED << firstReq, d_user, nReq >>
         ELSE /\ firstReq' = r.msg
              /\ d_user' = r.msg.User
              /\ nReq' = nReq + 1
              /\ pc' = IF cfgChallenge THEN "chalWrite" ELSE "findUpstream"
              /\ UNCHANGED << err, dClosed, uClosed >>
    /\ UNCHANGED << cfgChallenge, chal, uOpened, fwd, mp, upErrs, chalResult,
                    findCalls, curMsg, packet, hook,
                    upIn, awaiting, upOut, upAuthed, banners, downOut >>

\* the coercion loop: write USERAUTH_FAILURE [keyboard-interactive]
ChalWrite ==
    /\ pc = "chalWrite"
    /\ \E fails \in BOOLEAN :
         IF fails
         THEN /\ Return(TRUE, TRUE, FALSE)
              /\ UNCHANGED << downOut, chal >>
         ELSE /\ chal.n < MaxChal
              /\ downOut' = Append(downOut, ChallengeFailurePkt)
              /\ chal' = [chal EXCEPT !.n = @ + 1]
              /\ pc' = "chalRead"
              /\ UNCHANGED << err, dClosed, uClosed >>
    /\ UNCHANGED << cfgChallenge, uOpened, fwd, mp, upErrs, chalResult,
                    findCalls, d_user, firstReq,
                    curMsg, packet, hook, upIn, awaiting, upOut, upAuthed,
                    banners, nReq >>

\* a coercion loop whose read assigns Serve's userAuthReq
chalLoopReqAssigned(outer, read) == read

\* Serve's userAuthReq after the coercion loop has read a request: the loop
\* declares its own userAuthReq with := , so Serve's keeps its value
chalLoopReq(outer, read) == outer

\* the coercion loop: read a request into the loop's own userAuthReq (which
\* shadows Serve's) and leave the loop on keyboard-interactive
ChalRead ==
    /\ pc = "chalRead"
    /\ \E fails \in BOOLEAN, p \in DownPackets :
         LET r == nextAuthMsg(p) IN
         IF fails \/ r.err
         THEN /\ Return(TRUE, TRUE, FALSE)
              /\ UNCHANGED << chal, firstReq >>
         ELSE /\ chal' = [chal EXCEPT !.req = r.msg]
              /\ firstReq' = chalLoopReq(firstReq, r.msg)
              /\ pc' = IF r.msg.Method = "keyboard-interactive"
                       THEN "chalCall" ELSE "chalWrite"
              /\ UNCHANGED << err, dClosed, uClosed >>
    /\ UNCHANGED << cfgChallenge, uOpened, fwd, mp, upErrs, chalResult,
                    findCalls, d_user, curMsg, packet, hook, upIn, awaiting,
                    upOut, upAuthed, banners, downOut, nReq >>

\* afterChallenge that stops on an error only, not on a failed challenge
afterChallengeErrOnly(r) == IF r = "err" THEN "done" ELSE "findUpstream"

\* what follows a return of AdditionalChallenge with result r
afterChallenge(r) == IF r = "ok" THEN "findUpstream" ELSE "done"

\* ok, err := piper.AdditionalChallenge(d, prompter.Challenge); the loop
\* has been left and its userAuthReq is out of scope
ChalCall ==
    /\ pc = "chalCall"
    /\ \E r \in {"ok", "fail", "err"} :
         /\ chalResult' = r
         /\ IF afterChallenge(r) = "done"
            THEN Return(TRUE, TRUE, FALSE)
            ELSE /\ pc' = afterChallenge(r)
                 /\ UNCHANGED << err, dClosed, uClosed >>
    /\ chal' = [chal EXCEPT !.req = NilMsg]
    /\ UNCHANGED << cfgChallenge, uOpened, fwd, mp, upErrs, findCalls, d_user,
                    firstReq, curMsg, packet,
                    hook, upIn, awaiting, upOut, upAuthed, banners, downOut,
                    nReq >>

\* upconn, upconfig, err := piper.FindUpstream(d)
FindUpstream ==
    /\ pc = "findUpstream"
    /\ findCalls' = findCalls + 1
    /\ \E ok \in BOOLEAN :
         IF ok THEN /\ pc' = "newUpstream"
                    /\ uOpened' = TRUE
                    /\ UNCHANGED << err, dClosed, uClosed >>
         ELSE /\ Return(TRUE, TRUE, FALSE)
              /\ UNCHANGED uOpened
    /\ UNCHANGED << cfgChallenge, chal, fwd, mp, upErrs, chalResult, d_user,
                    firstReq, curMsg, packet,
                    hook, upIn, awaiting, upOut, upAuthed, banners, downOut,
                    nReq >>

\* newUpstream: the client handshake; on failure the upstream socket is
\* closed; on success pipeAuth starts, seeded with Serve's userAuthReq
\* (p.pipeAuth(userAuthReq), the last use of that variable)
NewUpstream ==
    /\ pc = "newUpstream"
    /\ \E ok \in BOOLEAN :
         IF ok THEN /\ pc' = "sendAuthReqWrite"
                    /\ curMsg' = firstReq
                    /\ firstReq' = NilMsg
                    /\ UNCHANGED << err, dClosed, uClosed >>
         ELSE /\ pc' = "done"
              /\ err' = TRUE
              /\ dClosed' = dClosed + 1
              /\ uClosed' = uClosed + 1
              /\ UNCHANGED << curMsg, firstReq >>
    /\ UNCHANGED << cfgChallenge, chal, uOpened, fwd, mp, upErrs, chalResult,
                    findCalls, d_user,
                    packet, hook, upIn, awaiting, upOut, upAuthed, banners,
                    downOut, nReq >>

\* ---------------------------------------------------------------- pipeAuth

\* a request was written to the upstream
Written == awaiting + 1
\* a packet p was read from the upstream: a banner answers no request
ReadOf(p) == IF p.type = "USERAUTH_BANNER" \/ awaiting = 0 THEN awaiting
             ELSE awaiting - 1

\* upstream.sendAuthReq: write SERVICE_REQUEST ssh-userauth
SendAuthReqWrite ==
    /\ pc = "sendAuthReqWrite"
    /\ \E fails \in BOOLEAN :
         IF fails
         THEN /\ Return(TRUE, TRUE, TRUE)
              /\ UNCHANGED << upIn, awaiting >>
         ELSE /\ upIn' = Append(upIn, ServiceRequest)
              /\ awaiting' = Written
              /\ pc' = "sendAuthReqRead"
              /\ UNCHANGED << err, dClosed, uClosed >>
    /\ UNCHANGED << cfgChallenge, chal, uOpened, fwd, mp, upErrs, chalResult,
                    findCalls, d_user, firstReq,
                    curMsg, packet, hook, upOut, upAuthed, banners, downOut,
                    nReq >>

\* upstream.sendAuthReq: read one packet and unmarshal it as SERVICE_ACCEPT
SendAuthReqRead ==
    /\ pc = "sendAuthReqRead"
    /\ \/ /\ Return(TRUE, TRUE, TRUE)
          /\ UNCHANGED << upOut, awaiting >>
       \/ /\ upOut # << >>
          /\ ~upErrs.read
          /\ upOut' = Tail(upOut)
          /\ awaiting' = ReadOf(Head(upOut))
          /\ IF Head(upOut).type = "SERVICE_ACCEPT"
             THEN /\ pc' = "process"
                  /\ UNCHANGED << err, dClosed, uClosed >>
             ELSE Return(TRUE, TRUE, TRUE)
    /\ UNCHANGED << cfgChallenge, chal, uOpened, fwd, mp, upErrs, chalResult,
                    findCalls, d_user, firstReq,
                    curMsg, packet, hook, upIn, upAuthed, banners, downOut,
                    nReq >>

\* userAuthMsg, err = pipe.processAuthMsg(userAuthMsg), up to the first I/O
\* of validAndAck
Process ==
    /\ pc = "process"
    /\ \E mapped \in MapResults, signFails \in BOOLEAN :
         LET r == processAuthMsg(curMsg, mapped, signFails)
             parsed == parsePublicKeyMsg(curMsg)
             called == r.outcome \notin {"pass", "parse_err"}
             checked == r.outcome \in {"badsig", "sign_err", "resign"}
                        /\ isAcceptableAlgo(parsed.sig.Format)
         IN  /\ hook' = [req |-> curMsg,
                         mapped |-> IF called THEN mapped ELSE "-",
                         downKey |-> r.downKey, outcome |-> r.outcome,
                         verified |-> IF checked
                                      THEN checkSignedData(curMsg, r.downKey)
                                      ELSE NoData]
             /\ IF r.err
                THEN /\ Return(TRUE, TRUE, TRUE)
                     /\ UNCHANGED curMsg
                ELSE /\ curMsg' = r.msg
                     /\ pc' = IF r.outcome = "query" THEN "probeWrite" ELSE "writeUp"
                     /\ UNCHANGED << err, dClosed, uClosed >>
    /\ UNCHANGED << cfgChallenge, chal, uOpened, fwd, mp, upErrs, chalResult,
                    findCalls, d_user, firstReq,
                    packet, upIn, awaiting, upOut, upAuthed, banners, downOut,
                    nReq >>

\* validateKey's request: a publickey request for key with has-signature=false
probeMsg(key, user) ==
    AuthReq(user, serviceSSH, "publickey",
            PkPayload(FALSE, KeyType(key), KeyMarshal(key), NoSig))

\* validateKey's reading of the reply p to its probe for key:
\* "ok", "no", "err" (an unexpected packet) or "skip" (a banner)
confirmKeyAck(key, p) ==
    IF p.type = "USERAUTH_PK_OK"
    THEN IF p.Algo = KeyType(key) /\ p.PubKey = KeyMarshal(key) THEN "ok" ELSE "no"
    ELSE IF p.type = "USERAUTH_FAILURE" THEN "no"
    ELSE IF p.type = "USERAUTH_BANNER" THEN "skip"
    ELSE "err"

\* validAndAck's result when validateKey did not answer ok: whatever err
\* validateKey returned, the request becomes a none request of d.user
validAndAckNotOk(validateErr) ==
    [msg |-> noneAuthMsg(d_user), err |-> FALSE]

\* okMsg built from the mapped key
okMsgUpKey(upKey, downKey) == PubKeyOkPkt(KeyType(upKey), KeyMarshal(upKey))

\* okMsg of validAndAck
okMsg(upKey, downKey) == PubKeyOkPkt(KeyType(downKey), KeyMarshal(downKey))

\* validAndAck -> validateKey: write the probe for upKey to the upstream
ProbeWrite ==
    /\ pc = "probeWrite"
    /\ \E fails \in BOOLEAN :
         IF fails
         THEN LET r == validAndAckNotOk(TRUE) IN
              /\ hook' = [hook EXCEPT !.outcome = "probe_werr"]
              /\ upErrs' = [upErrs EXCEPT !.write = TRUE]
              /\ IF r.err
                 THEN /\ Return(TRUE, TRUE, TRUE)
                      /\ UNCHANGED curMsg
                 ELSE /\ curMsg' = r.msg
                      /\ pc' = "writeUp"
                      /\ UNCHANGED << err, dClosed, uClosed >>
              /\ UNCHANGED << upIn, awaiting >>
         ELSE /\ upIn' = Append(upIn, probeMsg(UpKey, d_user))
              /\ awaiting' = Written
              /\ pc' = "probeRead"
              /\ UNCHANGED << err, dClosed, uClosed, curMsg, hook, upErrs >>
    /\ UNCHANGED << cfgChallenge, chal, uOpened, fwd, mp, chalResult,
                    findCalls, d_user, firstReq,
                    packet, upOut, upAuthed, banners, downOut, nReq >>

\* validAndAck -> validateKey: read the upstream's reply to the probe,
\* skipping banners
ProbeRead ==
    /\ pc = "probeRead"
    /\ \E fails \in BOOLEAN :
         LET p == Head(upOut)
             a == IF fails THEN "rerr" ELSE confirmKeyAck(UpKey, p)
             r == validAndAckNotOk(a \in {"err", "rerr"})
         IN  /\ ~fails => (upOut # << >> /\ ~upErrs.read)
             /\ upOut' = IF fails THEN upOut ELSE Tail(upOut)
             /\ awaiting' = IF fails THEN awaiting ELSE ReadOf(p)
             /\ upErrs' = IF fails THEN [upErrs EXCEPT !.read = TRUE] ELSE upErrs
             /\ CASE a = "ok" ->
                       /\ pc' = "ackWrite"
                       /\ UNCHANGED << err, dClosed, uClosed, curMsg, hook >>
                  [] a = "skip" ->
                       /\ UNCHANGED << pc, err, dClosed, uClosed, curMsg,
                                       hook >>
                  [] OTHER ->
                       /\ hook' = [hook EXCEPT !.outcome =
                                      CASE a = "rerr" -> "probe_rerr"
                                        [] a = "err" -> "probe_unexpected"
                                        [] OTHER -> "probe_no"]
                       /\ IF r.err
                          THEN /\ Return(TRUE, TRUE, TRUE)
                               /\ UNCHANGED curMsg
                          ELSE /\ curMsg' = r.msg
                               /\ pc' = "writeUp"
                               /\ UNCHANGED << err, dClosed, uClosed >>
    /\ UNCHANGED << cfgChallenge, chal, uOpened, fwd, mp, chalResult,
                    findCalls, d_user, firstReq,
                    packet, upIn, upAuthed, banners, downOut, nReq >>

\* validAndAck: write PK_OK to the downstream and return (nil, nil), which
\* makes pipeAuth skip the upstream round trip
AckWrite ==
    /\ pc = "ackWrite"
    /\ \E fails \in BOOLEAN :
         IF fails
         THEN /\ Return(TRUE, TRUE, TRUE)
              /\ hook' = [hook EXCEPT !.outcome = "ack_err"]
              /\ UNCHANGED << downOut, curMsg >>
         ELSE /\ downOut' = Append(downOut, okMsg(UpKey, hook.downKey))
              /\ hook' = [hook EXCEPT !.outcome = "acked"]
              /\ curMsg' = NilMsg
              /\ pc' = "nextDown"
              /\ UNCHANGED << err, dClosed, uClosed >>
    /\ UNCHANGED << cfgChallenge, chal, uOpened, fwd, mp, upErrs, chalResult,
                    findCalls, d_user, firstReq,
                    packet, upIn, awaiting, upOut, upAuthed, banners, nReq >>

\* pipe.upstream.transport.writePacket(Marshal(userAuthMsg))
WriteUp ==
    /\ pc = "writeUp"
    /\ \E fails \in BOOLEAN :
         IF fails \/ upErrs.write
         THEN /\ Return(TRUE, TRUE, TRUE)
              /\ UNCHANGED << upIn, awaiting >>
         ELSE /\ upIn' = Append(upIn, curMsg)
              /\ awaiting' = Written
              /\ pc' = "readUp"
              /\ UNCHANGED << err, dClosed, uClosed >>
    /\ UNCHANGED << cfgChallenge, chal, uOpened, fwd, mp, upErrs, chalResult,
                    findCalls, d_user, firstReq,
                    curMsg, packet, hook, upOut, upAuthed, banners, downOut,
                    nReq >>

\* packet, err := pipe.upstream.transport.readPacket()
ReadUp ==
    /\ pc = "readUp"
    /\ \/ /\ Return(TRUE, TRUE, TRUE)
          /\ UNCHANGED << upOut, packet, awaiting >>
       \/ /\ upOut # << >>
          /\ ~upErrs.read
          /\ packet' = Head(upOut)
          /\ upOut' = Tail(upOut)
          /\ awaiting' = ReadOf(Head(upOut))
          /\ pc' = "relay"
          /\ UNCHANGED << err, dClosed, uClosed >>
    /\ UNCHANGED << cfgChallenge, chal, uOpened, fwd, mp, upErrs, chalResult,
                    findCalls, d_user, firstReq,
                    curMsg, hook, upIn, upAuthed, banners, downOut, nReq >>

\* afterRelay without the test for success
afterRelayNoSuccess(p) == "nextDown"

\* afterRelay that enters the forwarding loop after any relayed packet
afterRelayAnyPacket(p) == "loop"

\* where pipeAuth goes after relaying packet p
afterRelay(p) == IF p.type = "USERAUTH_SUCCESS" THEN "loop" ELSE "nextDown"

\* success := packet[0] == msgUserAuthSuccess; relay the packet to the
\* downstream; return nil on success
Relay ==
    /\ pc = "relay"
    /\ \E fails \in BOOLEAN :
         IF fails
         THEN /\ Return(TRUE, TRUE, TRUE)
              /\ UNCHANGED downOut
         ELSE /\ downOut' = Append(downOut, packet)
              /\ pc' = afterRelay(packet)
              /\ UNCHANGED << err, dClosed, uClosed >>
    /\ UNCHANGED << cfgChallenge, chal, uOpened, fwd, mp, upErrs, chalResult,
                    findCalls, d_user, firstReq,
                    curMsg, packet, hook, upIn, awaiting, upOut, upAuthed,
                    banners, nReq >>

\* userAuthMsg, err = pipe.downstream.nextAuthMsg(); the next iteration's
\* hook call has not started
NextDown ==
    /\ pc = "nextDown"
    /\ \E fails \in BOOLEAN, p \in DownPackets :
         LET r == nextAuthMsg(p) IN
         IF fails \/ r.err
         THEN /\ Return(TRUE, TRUE, TRUE)
              /\ UNCHANGED << curMsg, nReq, hook >>
         ELSE /\ nReq < MaxReq
              /\ nReq' = nReq + 1
              /\ curMsg' = r.msg
              /\ hook' = NoHook
              /\ pc' = "process"
              /\ UNCHANGED << err, dClosed, uClosed >>
    /\ UNCHANGED << cfgChallenge, chal, uOpened, fwd, mp, upErrs, chalResult,
                    findCalls, d_user, firstReq,
                    packet, upIn, awaiting, upOut, upAuthed, banners, downOut >>

\* p.loop(): the forwarding loop returns the first copier's error;
\* pipe.Close() closes both connections, then Serve's deferred closes run
Loop ==
    /\ pc = "loop"
    /\ pc' = "done"
    /\ err' = TRUE
    /\ dClosed' = dClosed + 2
    /\ uClosed' = uClosed + 2
    /\ UNCHANGED << cfgChallenge, chal, uOpened, fwd, mp, upErrs, chalResult,
                    findCalls, d_user, firstReq,
                    curMsg, packet, hook, upIn, awaiting, upOut, upAuthed,
                    banners, downOut, nReq >>

\* ------------------------------------------------------ the upstream server

\* the positions of Serve after both handshakes: pipeAuth and loop
AfterHandshakes ==
    { "sendAuthReqWrite", "sendAuthReqRead", "process", "probeWrite",
      "probeRead", "ackWrite", "writeUp", "readUp", "relay", "nextDown",
      "loop" }

\* the replies an RFC 4252 server can give to request req
upstreamReplies(req) ==
    IF req.type = "SERVICE_REQUEST" THEN {ServiceAcceptPkt, DisconnectPkt}
    ELSE IF req.Method = "publickey" /\ ~req.Payload.HasSig
         THEN {PubKeyOkPkt(req.Payload.Algoname, req.Payload.PubKey), FailurePkt}
    ELSE IF req.Method = "publickey"
         THEN IF /\ ParsePublicKey(req.Payload.PubKey) # "error"
                 /\ Verify(ParsePublicKey(req.Payload.PubKey),
                           buildDataSignedForAuth(UpSessionID, req,
                               req.Payload.Algoname, req.Payload.PubKey),
                           req.Payload.Sig)
              THEN {SuccessPkt, FailurePkt}
              ELSE {FailurePkt}
    ELSE {SuccessPkt, FailurePkt}

\* the upstream takes the oldest request written to it and answers it, after
\* a banner if it has one to show; once it has sent USERAUTH_SUCCESS it
\* ignores user-auth requests
UpstreamServe ==
    /\ upIn # << >>
    /\ uClosed = 0
    /\ upIn' = Tail(upIn)
    /\ LET req == Head(upIn) IN
       IF upAuthed
       THEN UNCHANGED << upOut, upAuthed, banners >>
       ELSE \E reply \in upstreamReplies(req), banner \in BOOLEAN :
              /\ banner => banners < MaxBanner /\ req.type = "USERAUTH_REQUEST"
              /\ banners' = IF banner THEN banners + 1 ELSE banners
              /\ upOut' = IF banner THEN upOut \o << BannerPkt, reply >>
                          ELSE Append(upOut, reply)
              /\ upAuthed' = (reply.type = "USERAUTH_SUCCESS")
    /\ UNCHANGED << pc, err, cfgChallenge, chal, uOpened, fwd, mp, upErrs,
                    chalResult, findCalls, d_user,
                    firstReq, curMsg, packet, hook, awaiting, downOut, nReq,
                    dClosed, uClosed >>

\* the upstream peer closes its end of the socket after the handshakes: from
\* then on the piper's reads of the upstream fail
UpstreamClose ==
    /\ pc \in AfterHandshakes
    /\ uClosed = 0
    /\ ~upErrs.read
    /\ upErrs' = [upErrs EXCEPT !.read = TRUE]
    /\ UNCHANGED << pc, err, cfgChallenge, chal, uOpened, fwd, mp, chalResult,
                    findCalls, d_user, firstReq, curMsg, packet, hook, upIn,
                    awaiting, upOut, upAuthed, banners, downOut, nReq,
                    dClosed, uClosed >>

Next ==
    \/ NewDownstream
    \/ FirstAuth
    \/ ChalWrite
    \/ ChalRead
    \/ ChalCall
    \/ FindUpstream
    \/ NewUpstream
    \/ SendAuthReqWrite
    \/ SendAuthReqRead
    \/ Process
    \/ ProbeWrite
    \/ ProbeRead
    \/ AckWrite
    \/ WriteUp
    \/ ReadUp
    \/ Relay
    \/ NextDown
    \/ Loop
    \/ UpstreamServe
    \/ UpstreamClose

Spec == Init /\ [][Next]_vars

\* the steps of Serve that do not wait for the downstream peer to send a
\* packet (FirstAuth, ChalRead and NextDown do): once such a step can be
\* taken, the goroutine running Serve takes it; a read of the upstream
\* returns when the upstream has answered or the read has failed
PiperStep ==
    \/ NewDownstream
    \/ ChalWrite
    \/ ChalCall
    \/ FindUpstream
    \/ NewUpstream
    \/ SendAuthReqWrite
    \/ SendAuthReqRead
    \/ Process
    \/ ProbeWrite
    \/ ProbeRead
    \/ AckWrite
    \/ WriteUp
    \/ ReadUp
    \/ Relay
    \/ Loop

\* Serve under a fair scheduler and a live upstream server; the downstream
\* peer is free to stay silent, and no peer is obliged to close
SpecLive ==
    /\ Init
    /\ [][Next]_vars
    /\ WF_vars(PiperStep)
    /\ WF_vars(UpstreamServe)

\* ------------------------------------------------- loop(): the two copiers

\* packets each peer sends during the forwarding phase; they are numbered in
\* the order the peer sends them
MaxPkt == 2

\* copier 1 is piping(upstream, downstream), copier 2 is
\* piping(downstream, upstream)
Copiers == {1, 2}
\* number of Close calls on the connection copier k reads / writes
srcClosed(k) == IF k = 1 THEN dClosed ELSE uClosed
dstClosed(k) == IF k = 1 THEN uClosed ELSE dClosed

\* Serve is about to call loop(): the first request (method password) was
\* relayed and the upstream answered it with USERAUTH_SUCCESS
InitFwd ==
    LET first == AuthReq("alice", serviceSSH, "password", NoPayload) IN
    /\ pc = "loop"
    /\ err = FALSE
    /\ cfgChallenge = FALSE
    /\ chalResult = "-"
    /\ findCalls = 1
    /\ d_user = "alice"
    /\ firstReq = NilMsg
    /\ curMsg = first
    /\ packet = SuccessPkt
    /\ hook = [NoHook EXCEPT !.req = first, !.outcome = "pass"]
    /\ upIn = << >>
    /\ awaiting = 0
    /\ upOut = << >>
    /\ upAuthed = TRUE
    /\ banners = 0
    /\ downOut = << SuccessPkt >>
    /\ nReq = 1
    /\ dClosed = 0
    /\ uClosed = 0
    /\ upErrs = [read |-> FALSE, write |-> FALSE]
    /\ chal = NoChal
    /\ uOpened = TRUE
    /\ fwd = NoFwd
    /\ mp = NoMap

\* what the forwarding loop leaves alone
AuthVars == << cfgChallenge, chalResult, findCalls, d_user, firstReq, curMsg,
               packet, hook, upIn, awaiting, upOut, upAuthed, banners,
               downOut, nReq, upErrs, chal, uOpened, mp >>

\* loop(): c := make(chan error), the two go statements, defer pipe.Close();
\* the parent then waits in <-c
LoopStart ==
    /\ pc = "loop"
    /\ fwd.parent = "-"
    /\ fwd' = [fwd EXCEPT !.parent = "recv", !.cp = << "read", "read" >>]
    /\ UNCHANGED << pc, err, dClosed, uClosed >>
    /\ UNCHANGED AuthVars

\* piping returned for copier k: the goroutine evaluates c <- err and waits
\* on the unbuffered channel until a receiver takes the value
pipingReturns(k) ==
    [fwd EXCEPT !.cp[k] = "send", !.errs = Append(@, k),
                !.sendq = Append(@, k)]

\* a copier that writes every packet twice
pipingWriteTwice(written, p) == Append(Append(written, p), p)

\* err = dst.writePacket(p): the packets written to dst so far, then p
pipingWrite(written, p) == Append(written, p)

\* p, err := src.readPacket(): fails when the peer has closed or the
\* connection was closed here, else yields the peer's next packet
CopierRead(k) ==
    /\ fwd.cp[k] = "read"
    /\ \E fails \in BOOLEAN :
         IF fails \/ srcClosed(k) > 0
         THEN fwd' = pipingReturns(k)
         ELSE /\ fwd.nread[k] < MaxPkt
              /\ fwd' = [fwd EXCEPT !.cp[k] = "write", !.nread[k] = @ + 1]
    /\ UNCHANGED << pc, err, dClosed, uClosed >>
    /\ UNCHANGED AuthVars

\* err = dst.writePacket(p) of the packet just read
CopierWrite(k) ==
    /\ fwd.cp[k] = "write"
    /\ \E fails \in BOOLEAN :
         IF fails \/ dstClosed(k) > 0
         THEN fwd' = pipingReturns(k)
         ELSE fwd' = [fwd EXCEPT !.cp[k] = "read",
                                 !.out[k] = pipingWrite(@, fwd.nread[k])]
    /\ UNCHANGED << pc, err, dClosed, uClosed >>
    /\ UNCHANGED AuthVars

\* return <-c: the parent takes the value of the copier that has waited
\* longest on the channel, and that goroutine ends; the deferred pipe.Close()
\* closes both connections; Serve returns the error and its deferred
\* u.Close() and d.Close() run. Nothing receives from c afterwards.
ParentRecv ==
    /\ pc = "loop"
    /\ fwd.parent = "recv"
    /\ fwd.sendq # << >>
    /\ LET k == Head(fwd.sendq) IN
       fwd' = [fwd EXCEPT !.parent = "returned", !.ret = k,
                          !.cp[k] = "exit", !.sendq = Tail(@)]
    /\ pc' = "done"
    /\ err' = TRUE
    /\ dClosed' = dClosed + 2
    /\ uClosed' = uClosed + 2
    /\ UNCHANGED AuthVars

NextFwd ==
    \/ LoopStart
    \/ \E k \in Copiers : CopierRead(k)
    \/ \E k \in Copiers : CopierWrite(k)
    \/ ParentRecv

SpecFwd == InitFwd /\ [][NextFwd]_vars

\* ------------------------------------ sshpiperd: mapPublicKeyFromUserfile

\* entries of an authorized_keys file in one call
MaxEntries == 2
\* the permission bits check400 demands: 0400
Mode0400 == 256
\* permission bits a credential file can have: 0400, 0600, 0440
FileModes == {Mode0400, 384, 288}

\* a file that does not exist
NoFile == [exists |-> FALSE, mode |-> 0, readable |-> FALSE,
           entries |-> << >>, parses |-> FALSE]
\* the lines of an authorized_keys file: a public key, or a line that
\* ParseAuthorizedKey rejects
AuthEntries == DownKeys \cup {"bad"}
\* the user's authorized_keys files
AuthFiles ==
    {NoFile} \cup
    { [exists |-> TRUE, mode |-> m, readable |-> r, entries |-> e,
       parses |-> FALSE] :
        m \in FileModes, r \in BOOLEAN,
        e \in UNION { [1..n -> AuthEntries] : n \in 0..MaxEntries } }
\* the user's private key files (parses: ParsePrivateKey accepts the bytes)
KeyFiles ==
    {NoFile} \cup
    { [exists |-> TRUE, mode |-> m, readable |-> r, entries |-> << >>,
       parses |-> ok] :
        m \in FileModes, r \in BOOLEAN, ok \in BOOLEAN }

\* a check400 that only tests that the file can be opened
check400AnyMode(file) == ~file.exists

\* userFile.check400: TRUE for an error, which is returned when the file
\* cannot be opened or its permission bits are not exactly 0400
check400(file) == ~file.exists \/ file.mode # Mode0400

\* userFile.read: TRUE for an error
readFails(file) == ~file.exists \/ ~file.readable

\* the branch taken when an entry equals the presented key
mapPrivateKey(keyFile) ==
    IF check400(keyFile) THEN "err"
    ELSE IF readFails(keyFile) THEN "err"
    ELSE IF ~keyFile.parses THEN "err"
    ELSE "signer"

\* the for loop over the rest of the authorized_keys file
RECURSIVE mapScan(_, _, _)
mapScan(rest, keydata, keyFile) ==
    IF rest = << >> THEN "nil"
    ELSE IF Head(rest) = "bad" THEN "err"
    ELSE IF KeyMarshal(Head(rest)) = keydata THEN mapPrivateKey(keyFile)
    ELSE mapScan(Tail(rest), keydata, keyFile)

\* mapPublicKeyFromUserfile(conn, key): "signer" for (private, nil), "nil"
\* for (nil, nil), "err" for (nil, err)
mapPublicKeyFromUserfile(authFile, keyFile, key) ==
    IF check400(authFile) THEN "err"
    ELSE IF readFails(authFile) THEN "err"
    ELSE mapScan(authFile.entries, KeyMarshal(key), keyFile)

\* a well-formed publickey request of user for key, a query or signed
mapReq(user, key, hasSig) ==
    LET bare == AuthReq(user, serviceSSH, "publickey", NoPayload)
        data == buildDataSignedForAuth(DownSessionID, bare, KeyType(key),
                                       KeyMarshal(key))
    IN  AuthReq(user, serviceSSH, "publickey",
                PkPayload(hasSig, KeyType(key), KeyMarshal(key),
                          IF hasSig THEN Sign(key, data) ELSE NoSig))

\* one call of mapPublicKeyFromUserfile is about to be made by the hook,
\* for a request of the session's user
InitMap ==
    /\ pc = "process"
    /\ err = FALSE
    /\ cfgChallenge = FALSE
    /\ chalResult = "-"
    /\ findCalls = 1
    /\ d_user \in Users
    /\ firstReq = NilMsg
    /\ \E key \in DownKeys, hasSig \in BOOLEAN :
         /\ curMsg = mapReq(d_user, key, hasSig)
         /\ \E af \in AuthFiles, kf \in KeyFiles :
              mp = [st |-> "call", authFile |-> af, keyFile |-> kf,
                    key |-> key, result |-> "-", core |-> "-"]
    /\ packet = NoPacket
    /\ hook = NoHook
    /\ upIn = << >>
    /\ awaiting = 0
    /\ upOut = << >>
    /\ upAuthed = FALSE
    /\ banners = 0
    /\ downOut = << >>
    /\ nReq = 1
    /\ dClosed = 0
    /\ uClosed = 0
    /\ upErrs = [read |-> FALSE, write |-> FALSE]
    /\ chal = NoChal
    /\ uOpened = TRUE
    /\ fwd = NoFwd

\* signer, err := piper.MapPublicKey(d, downKey) with the reference
\* collaborator, and what the hook makes of the result
MapCall ==
    /\ mp.st = "call"
    /\ LET r == mapPublicKeyFromUserfile(mp.authFile, mp.keyFile, mp.key)
           h == processAuthMsg(curMsg, r, FALSE)
       IN  mp' = [mp EXCEPT !.st = "returned", !.result = r,
                            !.core = [msg |-> h.msg, err |-> h.err,
                                      outcome |-> h.outcome]]
    /\ UNCHANGED << pc, err, cfgChallenge, chalResult, findCalls, d_user,
                    firstReq, curMsg, packet, hook, upIn, awaiting, upOut,
                    upAuthed, banners, downOut, nReq, dClosed, uClosed,
                    upErrs, chal, uOpened, fwd >>

NextMap == MapCall

SpecMap == InitMap /\ [][NextMap]_vars

\* ------------------------------------------------------------- properties

Last(q) == q[Len(q)]
IsQuery(m) == m.Method = "publickey" /\ ~m.Payload.len0 /\ ~m.Payload.HasSig
IsSigned(m) == m.Method = "publickey" /\ ~m.Payload.len0 /\ m.Payload.HasSig
NoneOf(user) == [type |-> "USERAUTH_REQUEST", User |-> user,
                 Service |-> "ssh-connection", Method |-> "none",
                 Payload |-> NoPayload]
\* an iteration of pipeAuth has just ended (its hook call is still recorded)
IterationEnded == pc \in {"nextDown", "loop"} /\ hook.outcome # "-"

\* C1: the downstream's signature is verified over signed data built with
\* the downstream session id, and every re-signed publickey request written
\* to the upstream carries a signature over signed data built with the
\* upstream session id; never the other way round.
C1_SessionIds ==
    /\ hook.verified # NoData => /\ hook.verified.Session = DownSessionID
                                 /\ hook.verified.Session # UpSessionID
    /\ \A i \in 1..Len(upIn) :
          IsSigned(upIn[i]) => /\ upIn[i].Payload.Sig.data.Session = UpSessionID
                               /\ upIn[i].Payload.Sig.data.Session # DownSessionID
    /\ hook.outcome = "resign" /\ pc = "writeUp"
          => curMsg.Payload.Sig.data.Session = UpSessionID

C1_Witness ==
    /\ hook.outcome = "resign"
    /\ hook.verified.Session = DownSessionID
    /\ pc = "readUp"
    /\ upIn # << >>
    /\ IsSigned(Last(upIn))
    /\ Last(upIn).Payload.Sig.by = UpKey

\* the outcomes of the hook that end in a substituted none request
NoneOutcomes == {"nomap", "probe_no", "probe_werr", "probe_rerr", "probe_unexpected"}

C3_Original ==
    \A i \in 1..Len(downOut) : downOut[i].PubKey # KeyMarshal(UpKey)

\* C4: when MapPublicKey returns no signer or an error, the hook returns
\* without error a none request for the user of the original request, and
\* that is the packet pipeAuth writes to the upstream in this iteration.
C4_NoMapping ==
    [][ /\ (pc = "process" /\ hook'.mapped \in {"nil", "err"})
            => /\ pc' = "writeUp"
               /\ ~err'
               /\ curMsg' = NoneOf(curMsg.User)
        /\ (pc = "writeUp" /\ hook.mapped \in {"nil", "err"} /\ pc' = "readUp")
            => upIn' = Append(upIn, NoneOf(hook.req.User)) ]_vars

C4_Witness ==
    /\ pc = "readUp"
    /\ hook.mapped \in {"nil", "err"}
    /\ hook.req.Method = "publickey"
    /\ hook.req.User # d_user
    /\ upIn # << >>
    /\ Last(upIn).Method = "none"

SuccessRelayed == \E i \in 1..Len(downOut) : downOut[i].type = "USERAUTH_SUCCESS"

\* C5: once a USERAUTH_SUCCESS has been relayed to the downstream, the
\* session is in the forwarding loop or has ended: the hook is not invoked
\* again, no further request is read and nothing more is relayed.
C5_AfterSuccess ==
    [][ SuccessRelayed =>
          /\ pc \in {"loop", "done"}
          /\ pc' \in {"loop", "done"}
          /\ hook' = hook
          /\ nReq' = nReq
          /\ downOut' = downOut
          /\ Last(downOut).type = "USERAUTH_SUCCESS" ]_vars

C5_Witness == SuccessRelayed /\ pc = "done" /\ nReq < MaxReq

\* C6 (as claimed): at most one request written to the upstream awaits its
\* reply at any moment.
C6_Original == awaiting <= 1

\* C7: with an AdditionalChallenge configured, FindUpstream is invoked only
\* after the callback returned true; when it returns false or an error,
\* Serve returns an error and FindUpstream is never invoked.
C7_ChallengeGate ==
    /\ (cfgChallenge /\ findCalls > 0) => chalResult = "ok"
    /\ chalResult \in {"fail", "err"} => pc = "done" /\ err /\ findCalls = 0

C7_Witness == cfgChallenge /\ chalResult = "ok" /\ findCalls = 1

\* the signature of the signed request m does not verify: its format is not
\* accepted, or it is not a signature by the request's key over the signed
\* data of the downstream session
BadSignature(m) ==
    LET k == m.Payload.PubKey.data
        sig == m.Payload.Sig
    IN  \/ sig.Format \notin AcceptableAlgos
        \/ sig.by # k
        \/ sig.data # [Session |-> DownSessionID, User |-> m.User,
                       Service |-> m.Service, Method |-> m.Method,
                       Algo |-> KeyType(k), PubKey |-> KeyMarshal(k)]

C9_Original ==
    (/\ hook.req.Method = "publickey"
     /\ ~hook.req.Payload.len0
     /\ hook.req.Payload.Algoname \notin AcceptableAlgos)
        => /\ hook.outcome # "parse_err"
           /\ ~(pc = "done" /\ err /\ hook.outcome \notin NoneOutcomes \cup {"badsig"})

\* C10 (as claimed): an error met inside the probe of validAndAck (a failed
\* write or read on the upstream transport, an unexpected packet) makes
\* Serve return an error, and both sides are closed.
C10_Original ==
    hook.outcome \in {"probe_werr", "probe_rerr", "probe_unexpected"}
        => pc = "done" /\ err /\ dClosed > 0 /\ uClosed > 0

\* C11 (as claimed): on every return path from Serve each socket that was
\* opened has been closed exactly once: never left open, never closed twice.
C11_Original ==
    pc = "done" => /\ dClosed = 1
                   /\ uClosed = (IF uOpened THEN 1 ELSE 0)

\* C12 (as claimed): after loop() has returned and closed both connections,
\* the other copier also runs to completion: no copier is left waiting to
\* hand its result over the result channel when nothing receives from it.
C12_Original ==
    \A k \in Copiers : fwd.cp[k] = "send" => fwd.parent = "recv"

\* C13 (as claimed): once the upstream socket is closed by its peer at any
\* point after both handshakes, the session eventually terminates (Serve
\* returns) and the other socket, the downstream's, is closed.
C13_Original ==
    (pc \in AfterHandshakes /\ upErrs.read) ~> (pc = "done" /\ dClosed > 0)

\* the first n packets of a peer, in the order it sent them
Sent(n) == [i \in 1..n |-> i]

\* C14: loop() returns the error of the copier that failed first, and when
\* it has returned both connections have been closed; in each direction the
\* packets written are exactly the packets read, in the order read, save
\* the one packet a copier holds between its read and its write or lost to
\* the failed write that ended it.
C14_FirstError ==
    /\ fwd.parent = "returned"
         => /\ fwd.ret = fwd.errs[1]
            /\ pc = "done" /\ err
            /\ dClosed > 0 /\ uClosed > 0
    /\ fwd.parent = "recv" => pc = "loop" /\ dClosed = 0 /\ uClosed = 0
    /\ \A k \in Copiers :
         /\ fwd.cp[k] = "read" => fwd.out[k] = Sent(fwd.nread[k])
         /\ fwd.cp[k] = "write" => fwd.out[k] = Sent(fwd.nread[k] - 1)
         /\ fwd.cp[k] \in {"send", "exit"}
              => fwd.out[k] \in {Sent(fwd.nread[k]), Sent(fwd.nread[k] - 1)}

C14_Witness ==
    /\ fwd.parent = "returned"
    /\ fwd.errs = << 2, 1 >>
    /\ fwd.ret = 2
    /\ fwd.out[1] = << 1, 2 >>
    /\ fwd.out[2] = << 1 >>
    /\ fwd.nread[2] = 2

\* C15: the downstream's signature is never written to the upstream: every
\* publickey request written upstream is for upKey and carries either no
\* signature (the probe) or the mapped signer's signature over the data of
\* that very request in the upstream session; a signed request that was not
\* verified and re-signed goes upstream only as a none request.
C15_NoDownSig ==
    /\ \A i \in 1..Len(upIn) :
         LET m == upIn[i] IN
         /\ m.Payload.Sig.by \notin DownKeys
         /\ (m.type = "USERAUTH_REQUEST" /\ m.Method = "publickey")
              => /\ m.Payload.PubKey = KeyMarshal(UpKey)
                 /\ m.Payload.Sig =
                      IF m.Payload.HasSig
                      THEN Sign(UpKey, buildDataSignedForAuth(UpSessionID, m,
                                    KeyType(UpKey), KeyMarshal(UpKey)))
                      ELSE NoSig
    /\ (pc = "writeUp" /\ IsSigned(hook.req) /\ hook.outcome # "resign")
         => curMsg = NoneOf(curMsg.User)

C15_Witness ==
    /\ hook.outcome = "resign"
    /\ hook.req.Payload.Sig.by = "Kd"
    /\ pc = "readUp"
    /\ upIn # << >>
    /\ Last(upIn).Payload.HasSig

\* C16: a USERAUTH_SUCCESS reaches the downstream in the auth phase only as
\* the relay, by pipeAuth, of the packet it just read from the upstream,
\* which the upstream sent in reply to a request; and the session is at the
\* forwarding loop only after the upstream has sent USERAUTH_SUCCESS and
\* that packet was relayed.
C16_SuccessFromUpstream ==
    [][ /\ (downOut' # downOut /\ Last(downOut').type = "USERAUTH_SUCCESS")
           => /\ pc = "relay"
              /\ downOut' = Append(downOut, packet)
              /\ upAuthed
        /\ pc' = "loop"
           => /\ upAuthed'
              /\ packet'.type = "USERAUTH_SUCCESS"
              /\ Last(downOut') = packet' ]_vars

C16_Witness ==
    /\ pc = "loop"
    /\ cfgChallenge /\ chalResult = "ok"
    /\ upAuthed
    /\ Last(downOut) = SuccessPkt

\* C17: each iteration of the coercion loop writes one USERAUTH_FAILURE
\* [keyboard-interactive] to the downstream and then reads one request; the
\* loop is left exactly when the request just read is keyboard-interactive;
\* while the loop and the challenge run the rewriter is not called and
\* nothing is written upstream (no upstream is open); Serve's first request
\* is kept throughout and is the request pipeAuth starts with.
C17_CoercionLoop ==
    [][ /\ (pc = "chalWrite" /\ pc' # "done")
           => /\ pc' = "chalRead"
              /\ downOut' = Append(downOut, ChallengeFailurePkt)
        /\ (pc = "chalRead" /\ pc' # "done")
           => /\ downOut' = downOut
              /\ chal'.req.type = "USERAUTH_REQUEST"
              /\ pc' = IF chal'.req.Method = "keyboard-interactive"
                       THEN "chalCall" ELSE "chalWrite"
        /\ pc \in {"chalWrite", "chalRead", "chalCall"}
           => /\ Len(downOut') = chal'.n
              /\ hook' = NoHook
              /\ upIn' = << >>
              /\ ~uOpened'
              /\ firstReq' = firstReq
              /\ firstReq.type = "USERAUTH_REQUEST"
              /\ firstReq.User = d_user
        /\ (pc = "newUpstream" /\ pc' = "sendAuthReqWrite")
           => /\ curMsg' = firstReq
              /\ cfgChallenge => chal.req = NilMsg ]_vars

C17_Witness ==
    /\ pc = "sendAuthReqWrite"
    /\ chal.n = 2
    /\ chalResult = "ok"
    /\ downOut = << ChallengeFailurePkt, ChallengeFailurePkt >>
    /\ curMsg.Method = "publickey"
    /\ curMsg.User = "bob"

\* C18 (as claimed): the re-signed request the hook returns, and the data
\* the mapped signer signed, carry the username of the downstream request
\* being rewritten, with service ssh-connection, method publickey,
\* has-signature true, algorithm upKey.type and key upKey.
C18_Original ==
    (hook.outcome = "resign" /\ pc = "writeUp")
        => /\ curMsg.User = hook.req.User
           /\ curMsg.Payload.Sig.data.User = hook.req.User
           /\ curMsg.Service = serviceSSH
           /\ curMsg.Method = "publickey"
           /\ curMsg.Payload.HasSig
           /\ curMsg.Payload.Algoname = KeyType(UpKey)
           /\ curMsg.Payload.PubKey = KeyMarshal(UpKey)

\* C19 (as claimed): when an iteration of pipeAuth has ended without an
\* error, exactly one packet was written to the downstream for each request
\* read so far, and this iteration's packet is either the PK_OK built by the
\* piper or the upstream's reply to the request written in this iteration
\* (so no reply is left outstanding and the packet is no banner).
C19_Original ==
    IterationEnded
        => /\ Len(downOut) = chal.n + nReq
           /\ IF hook.outcome = "acked"
              THEN Last(downOut).type = "USERAUTH_PK_OK"
              ELSE /\ Last(downOut) = packet
                   /\ packet.type # "USERAUTH_BANNER"
                   /\ awaiting = 0

\* the conditions under which the claim lets a signer be returned
MapConditions ==
    /\ mp.authFile.exists /\ mp.authFile.mode = Mode0400
    /\ \E i \in 1..Len(mp.authFile.entries) :
         /\ mp.authFile.entries[i] = mp.key
         /\ \A j \in 1..(i - 1) : mp.authFile.entries[j] # "bad"
    /\ mp.keyFile.exists /\ mp.keyFile.mode = Mode0400 /\ mp.keyFile.parses

\* C20: mapPublicKeyFromUserfile returns a signer only when authorized_keys
\* has mode exactly 0400, one of its entries equals the presented key and
\* every entry before it parses, and the private key file has mode exactly
\* 0400 and parses (and it does return one then, both files being
\* readable); in every other case it returns no signer, and the hook then
\* returns a none request for the request's user and no error.
C20_MapPublicKey ==
    mp.st = "returned"
        => /\ mp.result = "signer" => MapConditions
           /\ (MapConditions /\ mp.authFile.readable /\ mp.keyFile.readable)
                => mp.result = "signer"
           /\ mp.result # "signer"
                => /\ mp.core.outcome = "nomap"
                   /\ ~mp.core.err
                   /\ mp.core.msg = NoneOf(curMsg.User)

C20_Witness ==
    /\ mp.st = "returned"
    /\ mp.authFile.mode = Mode0400
    /\ mp.authFile.entries = << "Kx", "Kd" >>
    /\ mp.key = "Kd"
    /\ mp.keyFile.exists /\ mp.keyFile.mode # Mode0400
    /\ mp.result = "err"
    /\ mp.core.outcome = "nomap"

====
